---- MODULE Spec2Model ----
(***************************************************************************)
(* Images2Pdf.generate_outlines (src/images2pdf.py, lines 326-374): the    *)
(* outline (table of contents) of the joined PDF is built from the file    *)
(* names of the page PDFs.  A first loop tokenises every stem into         *)
(* bookmarks {level, name, page_number}; a second loop nests them in a     *)
(* tree of pikepdf.OutlineItem objects.                                    *)
(*                                                                         *)
(* Characters are one-element strings.  The sixteen level symbols of the   *)
(* source (negative circled digits 0..15) are written "m0" .. "m15", the   *)
(* reference mark that starts a note is written "*", a blank is " ".       *)
(* Python's None is written None (-1).  An OutlineItem is identified by    *)
(* the position of its creation (1, 2, ...); a Python list that holds      *)
(* items is identified by its owner: 0 is the local list `outlines`, i > 0 *)
(* is the list `children` of item i.                                       *)
(***************************************************************************)
EXTENDS Integers, Sequences, FiniteSets, TLC

VARIABLES
    page_path_list,   \* the argument: the stems of the page files, in order
    pc,               \* "scan", "match", "build", "done" (returned) or
                      \* "error" (raised)
    page_number,      \* index of the page the first loop is at
    result,           \* the matches of the pattern in the page's label
    m,                \* number of matches the inner loop has taken
    bookmarks,        \* list of {level, name, page_number}
    k,                \* number of bookmarks the second loop has taken
    items,            \* the OutlineItem objects created: title, destination
    children,         \* owner -> the list of items it holds
    level_item_list,  \* list of (references to) lists, one per open depth
    old_raw_level,
    old_level,
    old_item,
    level,
    \* the Images2Pdf object and one conversion (lines 56-324)
    at,                  \* "new", "parsed", "convert", "join", "joined" or
                         \* "exit" (the parser has ended the program)
    default_pagelayout,  \* self.__default_pagelayout
    setter_raised,       \* the last call of the setter raised ValueError
    args,                \* the Namespace of the command line
    pagelayout,          \* self.pagelayout
    metafile,            \* self.metafile
    PageLayout           \* pdf.Root.PageLayout of the new PDF

conv_vars == << at, default_pagelayout, setter_raised, args, pagelayout,
                metafile, PageLayout >>

vars == << page_path_list, pc, page_number, result, m, bookmarks, k, items,
           children, level_item_list, old_raw_level, old_level, old_item,
           level, conv_vars >>

None == -1

(***************************************************************************)
(* Bounds of the inputs.                                                   *)
(***************************************************************************)
MaxLabelLen == 4
MaxPages == 2

(***************************************************************************)
(* Characters.                                                             *)
(***************************************************************************)
level_strs == << "m0", "m1", "m2", "m3", "m4", "m5", "m6", "m7",
                 "m8", "m9", "m10", "m11", "m12", "m13", "m14", "m15" >>

NoteMark == "*"

IsSpace(c) == c = " "

\* the character class of bookmarks_search_pattern
IsLevelStr(c) == \E i \in 1..Len(level_strs) : level_strs[i] = c

Max(a, b) == IF a < b THEN b ELSE a

(***************************************************************************)
(* str.split(maxsplit=1) with the default separator: leading blanks are    *)
(* skipped, the first word ends at the next blank, the blanks after it are *)
(* skipped and whatever is left (trailing blanks included) is the second   *)
(* element.                                                                *)
(***************************************************************************)
RECURSIVE SkipSpaces(_, _)
SkipSpaces(s, pos) ==
    IF pos > Len(s) \/ ~IsSpace(s[pos]) THEN pos ELSE SkipSpaces(s, pos + 1)

RECURSIVE WordEnd(_, _)
WordEnd(s, pos) ==
    IF pos > Len(s) \/ IsSpace(s[pos]) THEN pos ELSE WordEnd(s, pos + 1)

split_maxsplit1(stem) ==
    LET a == SkipSpaces(stem, 1) IN
    IF a > Len(stem) THEN << >>
    ELSE LET b == WordEnd(stem, a)
             c == SkipSpaces(stem, b)
         IN  IF c > Len(stem) THEN << SubSeq(stem, a, b - 1) >>
             ELSE << SubSeq(stem, a, b - 1), SubSeq(stem, c, Len(stem)) >>

(***************************************************************************)
(* bookmarks_search_pattern.finditer: "[levels]?[^levels]+", leftmost,     *)
(* greedy, non-overlapping.                                                *)
(***************************************************************************)
\* where the greedy run of non-level characters that starts at pos stops
RECURSIVE RunEnd(_, _)
RunEnd(s, pos) ==
    IF pos > Len(s) \/ IsLevelStr(s[pos]) THEN pos ELSE RunEnd(s, pos + 1)

\* MatchAt for a pattern whose level symbol is not optional
MatchAt_level_str_required(s, pos) ==
    LET e == RunEnd(s, pos + 1)
    IN  IF IsLevelStr(s[pos]) /\ e > pos + 1 THEN e ELSE 0

\* the position after the match that starts at pos, 0 when none starts there
MatchAt(s, pos) ==
    LET body == IF IsLevelStr(s[pos]) THEN pos + 1 ELSE pos
        e    == RunEnd(s, body)
    IN  IF e > body THEN e ELSE 0

RECURSIVE finditer(_, _)
finditer(s, pos) ==
    IF pos > Len(s) THEN << >>
    ELSE LET e == MatchAt(s, pos)
         IN  IF e = 0 THEN finditer(s, pos + 1)
             ELSE << SubSeq(s, pos, e - 1) >> \o finditer(s, e)

(***************************************************************************)
(* One match -> level and name.                                            *)
(***************************************************************************)
startswith(s, c) == Len(s) > 0 /\ s[1] = c

\* match_level counting the symbols from 1
match_level_from_one(group) ==
    IF \E i \in 1..Len(level_strs) : startswith(group, level_strs[i])
    THEN CHOOSE i \in 1..Len(level_strs) : startswith(group, level_strs[i])
    ELSE 0

\* the enumerate loop over the sixteen symbols, left at the first hit
match_level(group) ==
    IF \E i \in 1..Len(level_strs) : startswith(group, level_strs[i])
    THEN (CHOOSE i \in 1..Len(level_strs) :
              /\ startswith(group, level_strs[i])
              /\ \A j \in 1..(i - 1) : ~startswith(group, level_strs[j])) - 1
    ELSE 0

strip_level_str(group) ==
    IF \E i \in 1..Len(level_strs) : startswith(group, level_strs[i])
    THEN Tail(group)
    ELSE group

\* s.split(NoteMark, 1)[0]
RECURSIVE NotePos(_, _)
NotePos(s, pos) ==
    IF pos > Len(s) \/ s[pos] = NoteMark THEN pos ELSE NotePos(s, pos + 1)

split_note(s) == SubSeq(s, 1, NotePos(s, 1) - 1)

\* s.strip()
RECURSIVE LastNonSpace(_, _)
LastNonSpace(s, pos) ==
    IF pos < 1 \/ ~IsSpace(s[pos]) THEN pos ELSE LastNonSpace(s, pos - 1)

strip(s) == SubSeq(s, SkipSpaces(s, 1), LastNonSpace(s, Len(s)))

bookmark_name(group) == strip(split_note(strip_level_str(group)))

\* keeps_bookmark without the test of the name's length
keeps_bookmark_always(group) == TRUE

\* line 345
keeps_bookmark(group) == 0 < Len(bookmark_name(group))

\* new_bookmark numbering the pages from 1
new_bookmark_page_from_one(group, pn) ==
    [level |-> match_level(group), name |-> bookmark_name(group),
     page_number |-> pn + 1]

new_bookmark(group, pn) ==
    [level |-> match_level(group), name |-> bookmark_name(group),
     page_number |-> pn]

has_label(stem) ==
    LET split_filenames == split_maxsplit1(stem)
    IN  2 = Len(split_filenames) /\ 0 < Len(split_filenames[2])

label_of(stem) == split_maxsplit1(stem)[2]

(***************************************************************************)
(* The second loop: depth of the next item and the list it goes to.        *)
(***************************************************************************)
\* resolve_level descending by the size of the jump
resolve_level_jump(orl, ol, lvl, raw_level) ==
    IF orl = None THEN 0
    ELSE IF orl < raw_level THEN ol + (raw_level - orl)
    ELSE IF raw_level < orl THEN Max(0, lvl - (orl - raw_level))
    ELSE ol

\* resolve_level without the clamp at 0
resolve_level_no_clamp(orl, ol, lvl, raw_level) ==
    IF orl = None THEN 0
    ELSE IF orl < raw_level THEN ol + 1
    ELSE IF raw_level < orl THEN lvl - (orl - raw_level)
    ELSE ol

\* resolve_level descending on an equal level too
resolve_level_le(orl, ol, lvl, raw_level) ==
    IF orl = None THEN 0
    ELSE IF orl <= raw_level THEN ol + 1
    ELSE IF raw_level < orl THEN Max(0, lvl - (orl - raw_level))
    ELSE ol

\* resolve_level ascending one level whatever the drop
resolve_level_up_one(orl, ol, lvl, raw_level) ==
    IF orl = None THEN 0
    ELSE IF orl < raw_level THEN ol + 1
    ELSE IF raw_level < orl THEN Max(0, lvl - 1)
    ELSE ol

\* resolve_level staying at the depth when the level drops
resolve_level_no_ascent(orl, ol, lvl, raw_level) ==
    IF orl = None THEN 0
    ELSE IF orl < raw_level THEN ol + 1
    ELSE ol

\* lines 358-368; lvl is the value `level` still holds from the last pass
resolve_level(orl, ol, lvl, raw_level) ==
    IF orl = None THEN 0
    ELSE IF orl < raw_level THEN ol + 1
    ELSE IF raw_level < orl THEN Max(0, lvl - (orl - raw_level))
    ELSE ol

\* del l[-n:] for n > 0
del_last(l, n) == SubSeq(l, 1, Max(0, Len(l) - n))

\* resolve_level_item_list deleting as many lists as the level dropped
resolve_level_item_list_raw_drop(lil, orl, ol, oi, new_level, raw_level) ==
    IF orl = None THEN lil
    ELSE IF orl < raw_level THEN Append(lil, oi)
    ELSE IF raw_level < orl /\ new_level < ol THEN del_last(lil, orl - raw_level)
    ELSE lil

\* lines 362 and 365-366
resolve_level_item_list(lil, orl, ol, oi, new_level, raw_level) ==
    IF orl = None THEN lil
    ELSE IF orl < raw_level THEN Append(lil, oi)
    ELSE IF raw_level < orl /\ new_level < ol THEN del_last(lil, ol - new_level)
    ELSE lil

\* l[i] of Python: i counts from 0, a negative i from the end
index_ok(l, i) == -Len(l) <= i /\ i < Len(l)
getitem(l, i)  == IF i >= 0 THEN l[i + 1] ELSE l[Len(l) + i + 1]

\* list_append putting the item first
list_insert_first(l, item) == << item >> \o l

\* list.append
list_append(l, item) == Append(l, item)

\* level_item_list[level].append(item), item being a new object
append_item(ch, lil, lvl, item) ==
    [o \in DOMAIN ch \cup {item} |->
        IF o = item THEN << >>
        ELSE IF o = getitem(lil, lvl) THEN list_append(ch[o], item)
        ELSE ch[o]]

(***************************************************************************)
(* Inputs.                                                                 *)
(***************************************************************************)
Chars == {"m1", "m15", "a", " ", "*"}

SeqsUpTo(S, n) == UNION {[1..len -> S] : len \in 0..n}

\* every label of up to MaxLabelLen characters behind a page number
LabelStems == {<< "p", " " >> \o l : l \in SeqsUpTo(Chars, MaxLabelLen)}

\* the file names of the module header, shortened; a jump to the last level
\* symbol, a page that goes four levels down, a page with a note alone, a
\* page with a marked note between two names and a page that goes up twice
HeaderStems ==
    { << "p", " ", "a", " ", "*", "a" >>,
      << "p", " ", "m1", "a" >>,
      << "p", " ", "m2", "a" >>,
      << "p" >>,
      << "p", " ", "a", " ", "*", "a", " ", "m1", "b" >>,
      << "p", " ", "m1", "a", " ", "m1", "b" >>,
      << "p", " ", "a", " ", "m0", "b" >>,
      << "p", " ", "m15", "a" >>,
      << "p", " ", "m1", "a", "m2", "b", "m3", "c", "m4", "d" >>,
      << "p", " ", "*", "a" >>,
      << "p", " ", "m1", "a", "m15", "*", "m1", "b" >>,
      << "p", " ", "m2", "a", "m0", "b" >> }

\* one page with three marked names, every combination of levels
JumpStems ==
    {<< "p", " ", level_strs[i], "a", level_strs[j], "b", level_strs[l], "c" >> :
        i, j, l \in 1..Len(level_strs)}

PagePathLists ==
    {<< s >> : s \in LabelStems \cup JumpStems}
        \cup SeqsUpTo(HeaderStems, MaxPages)

(***************************************************************************)
(* The state machine.                                                      *)
(***************************************************************************)
\* an attribute that is not set yet
Unset == "<unset>"

\* Images2Pdf.__init__, before any conversion
ConstructorState ==
    /\ at = "new"
    /\ default_pagelayout = ""
    /\ setter_raised = FALSE
    /\ args = Unset
    /\ pagelayout = Unset
    /\ metafile = FALSE
    /\ PageLayout = Unset

\* generate_outlines is a static method: it is called here on a page list,
\* on an object as the constructor leaves it
Init ==
    /\ ConstructorState
    /\ page_path_list \in PagePathLists
    /\ pc = "scan"
    /\ page_number = 0
    /\ result = << >>
    /\ m = 0
    /\ bookmarks = << >>
    /\ k = 0
    /\ items = << >>
    /\ children = << >>
    /\ level_item_list = << >>
    /\ old_raw_level = None
    /\ old_level = None
    /\ old_item = None
    /\ level = None

\* lines 331-334, a page whose stem has a second part
ScanLabelledPage ==
    /\ pc = "scan"
    /\ page_number < Len(page_path_list)
    /\ has_label(page_path_list[page_number + 1])
    /\ result' = finditer(label_of(page_path_list[page_number + 1]), 1)
    /\ m' = 0
    /\ pc' = "match"
    /\ UNCHANGED conv_vars
    /\ UNCHANGED << page_path_list, page_number, bookmarks, k, items, children,
                    level_item_list, old_raw_level, old_level, old_item, level >>

\* lines 331-333, a page whose stem is a page number alone
ScanUnlabelledPage ==
    /\ pc = "scan"
    /\ page_number < Len(page_path_list)
    /\ ~has_label(page_path_list[page_number + 1])
    /\ page_number' = page_number + 1
    /\ UNCHANGED conv_vars
    /\ UNCHANGED << page_path_list, pc, result, m, bookmarks, k, items,
                    children, level_item_list, old_raw_level, old_level,
                    old_item, level >>

\* lines 335-346, a match that leaves a name
AppendBookmark ==
    /\ pc = "match"
    /\ m < Len(result)
    /\ keeps_bookmark(result[m + 1])
    /\ bookmarks' = Append(bookmarks, new_bookmark(result[m + 1], page_number))
    /\ m' = m + 1
    /\ UNCHANGED conv_vars
    /\ UNCHANGED << page_path_list, pc, page_number, result, k, items,
                    children, level_item_list, old_raw_level, old_level,
                    old_item, level >>

\* lines 335-345, a match that leaves no name
DropMatch ==
    /\ pc = "match"
    /\ m < Len(result)
    /\ ~keeps_bookmark(result[m + 1])
    /\ m' = m + 1
    /\ UNCHANGED conv_vars
    /\ UNCHANGED << page_path_list, pc, page_number, result, bookmarks, k,
                    items, children, level_item_list, old_raw_level, old_level,
                    old_item, level >>

\* the matches of the page are exhausted: on to the next page
NextPage ==
    /\ pc = "match"
    /\ m = Len(result)
    /\ page_number' = page_number + 1
    /\ result' = << >>
    /\ m' = 0
    /\ pc' = "scan"
    /\ UNCHANGED conv_vars
    /\ UNCHANGED << page_path_list, bookmarks, k, items, children,
                    level_item_list, old_raw_level, old_level, old_item, level >>

\* lines 348-350
ReturnEmpty ==
    /\ pc = "scan"
    /\ page_number = Len(page_path_list)
    /\ 0 = Len(bookmarks)
    /\ children' = [o \in {0} |-> << >>]
    /\ pc' = "done"
    /\ UNCHANGED conv_vars
    /\ UNCHANGED << page_path_list, page_number, result, m, bookmarks, k,
                    items, level_item_list, old_raw_level, old_level, old_item,
                    level >>

\* lines 348-354
StartBuild ==
    /\ pc = "scan"
    /\ page_number = Len(page_path_list)
    /\ 0 # Len(bookmarks)
    /\ children' = [o \in {0} |-> << >>]
    /\ old_raw_level' = None
    /\ old_level' = None
    /\ old_item' = None
    /\ level_item_list' = << 0 >>
    /\ pc' = "build"
    /\ UNCHANGED conv_vars
    /\ UNCHANGED << page_path_list, page_number, result, m, bookmarks, k,
                    items, level >>

\* lines 356-373 for the bookmark at position k
Place ==
    LET bookmark  == bookmarks[k + 1]
        item      == Len(items) + 1
        raw_level == bookmark.level
        new_level == resolve_level(old_raw_level, old_level, level, raw_level)
        new_list  == resolve_level_item_list(level_item_list, old_raw_level,
                         old_level, old_item, new_level, raw_level)
    IN  /\ items' = Append(items, [title |-> bookmark.name,
                                   destination |-> bookmark.page_number])
        /\ level' = new_level
        /\ level_item_list' = new_list
        /\ IF index_ok(new_list, new_level)
           THEN /\ children' = append_item(children, new_list, new_level, item)
                /\ old_raw_level' = raw_level
                /\ old_level' = new_level
                /\ old_item' = item
                /\ k' = k + 1
                /\ pc' = pc
           ELSE \* IndexError
                /\ children' = [o \in DOMAIN children \cup {item} |->
                                   IF o = item THEN << >> ELSE children[o]]
                /\ pc' = "error"
                /\ UNCHANGED << old_raw_level, old_level, old_item, k >>
        /\ UNCHANGED conv_vars
        /\ UNCHANGED << page_path_list, page_number, result, m, bookmarks >>

BuildFirst ==
    /\ pc = "build"
    /\ k < Len(bookmarks)
    /\ old_raw_level = None
    /\ Place

BuildDescend ==
    /\ pc = "build"
    /\ k < Len(bookmarks)
    /\ old_raw_level # None
    /\ old_raw_level < bookmarks[k + 1].level
    /\ Place

BuildAscend ==
    /\ pc = "build"
    /\ k < Len(bookmarks)
    /\ old_raw_level # None
    /\ bookmarks[k + 1].level < old_raw_level
    /\ Place

BuildSibling ==
    /\ pc = "build"
    /\ k < Len(bookmarks)
    /\ old_raw_level # None
    /\ bookmarks[k + 1].level = old_raw_level
    /\ Place

\* line 374
Return ==
    /\ pc = "build"
    /\ k = Len(bookmarks)
    /\ pc' = "done"
    /\ UNCHANGED conv_vars
    /\ UNCHANGED << page_path_list, page_number, result, m, bookmarks, k,
                    items, children, level_item_list, old_raw_level, old_level,
                    old_item, level >>

Next ==
    \/ ScanLabelledPage
    \/ ScanUnlabelledPage
    \/ AppendBookmark
    \/ DropMatch
    \/ NextPage
    \/ ReturnEmpty
    \/ StartBuild
    \/ BuildFirst
    \/ BuildDescend
    \/ BuildAscend
    \/ BuildSibling
    \/ Return

Spec == Init /\ [][Next]_vars

TypeOK ==
    /\ pc \in {"scan", "match", "build", "done", "error"}
    /\ page_number \in 0..Len(page_path_list)
    /\ m \in 0..Len(result)
    /\ k \in 0..Len(bookmarks)

(***************************************************************************)
(* The tree, read from the lists.                                          *)
(***************************************************************************)
HeldBy(ch, o) == {ch[o][j] : j \in 1..Len(ch[o])}

Placed(ch, i) == \E o \in DOMAIN ch : i \in HeldBy(ch, o)

\* the owner of the list that holds item i: 0 for a root, else its parent
ParentOf(ch, i) == CHOOSE o \in DOMAIN ch : i \in HeldBy(ch, o)

RECURSIVE DepthOf(_, _)
DepthOf(ch, i) ==
    LET o == ParentOf(ch, i) IN IF o = 0 THEN 0 ELSE 1 + DepthOf(ch, o)

\* the pre-order walk of the items of list l
RECURSIVE Walk(_, _)
Walk(ch, l) ==
    IF l = << >> THEN << >>
    ELSE << Head(l) >> \o Walk(ch, ch[Head(l)]) \o Walk(ch, Tail(l))

LastOf(l) == l[Len(l)]

Built == pc \in {"build", "done"}

\* a pass of the second loop is being made for bookmark k + 1
Placing == pc = "build" /\ Len(items') = Len(items) + 1

(***************************************************************************)
(* The tokens of a label, stated from the label's characters.              *)
(***************************************************************************)
MinOf(S) == CHOOSE x \in S : \A y \in S : x <= y
MaxOf(S) == CHOOSE x \in S : \A y \in S : y <= x

\* a run starts at a level symbol that a non-level character follows, and at
\* the first character when that is no level symbol
RunStarts(s) ==
    {i \in 1..Len(s) :
        \/ i = 1 /\ ~IsLevelStr(s[1])
        \/ IsLevelStr(s[i]) /\ i < Len(s) /\ ~IsLevelStr(s[i + 1])}

\* a run would start at every level symbol
EveryLevelStrStarts(s) ==
    {i \in 1..Len(s) : (i = 1 /\ ~IsLevelStr(s[1])) \/ IsLevelStr(s[i])}

\* the run from i reaches up to the next level symbol or the end
RunStop(s, i) ==
    MaxOf({j \in i..Len(s) : \A x \in (i + 1)..j : ~IsLevelStr(s[x])})

NthOf(S, n) == CHOOSE i \in S : Cardinality({x \in S : x < i}) = n - 1

RunsFrom(s, starts) ==
    [n \in 1..Cardinality(starts) |->
        LET i == NthOf(starts, n) IN SubSeq(s, i, RunStop(s, i))]

Runs(s) == RunsFrom(s, RunStarts(s))

\* at most one leading level symbol, then one or more other characters
IsRun(r) ==
    /\ Len(r) >= 1
    /\ \A x \in 2..Len(r) : ~IsLevelStr(r[x])
    /\ IsLevelStr(r[1]) => Len(r) >= 2

RunLevel(r) ==
    IF IsLevelStr(r[1])
    THEN CHOOSE n \in 0..15 : level_strs[n + 1] = r[1]
    ELSE 0

RunText(r) == IF IsLevelStr(r[1]) THEN Tail(r) ELSE r

CutAtNote(t) ==
    LET notes == {x \in 1..Len(t) : t[x] = NoteMark}
    IN  IF notes = {} THEN t ELSE SubSeq(t, 1, MinOf(notes) - 1)

Trimmed(t) ==
    LET solid == {x \in 1..Len(t) : t[x] # " "}
    IN  IF solid = {} THEN << >> ELSE SubSeq(t, MinOf(solid), MaxOf(solid))

RunName(r) == Trimmed(CutAtNote(RunText(r)))

\* t is a stretch of consecutive characters of s
IsPieceOf(t, s) ==
    \E a \in 1..(Len(s) + 1) : \E b \in 0..Len(s) : t = SubSeq(s, a, b)

RECURSIVE RunTokens(_, _)
RunTokens(rs, p) ==
    IF rs = << >> THEN << >>
    ELSE (IF RunName(Head(rs)) # << >>
          THEN << [level |-> RunLevel(Head(rs)), name |-> RunName(Head(rs)),
                   page_number |-> p] >>
          ELSE << >>) \o RunTokens(Tail(rs), p)

LabelAt(p) == label_of(page_path_list[p + 1])

PageTokens(p) ==
    IF has_label(page_path_list[p + 1])
    THEN RunTokens(Runs(LabelAt(p)), p)
    ELSE << >>

RECURSIVE TokensBefore(_)
TokensBefore(n) ==
    IF n = 0 THEN << >> ELSE TokensBefore(n - 1) \o PageTokens(n - 1)

\* the tokens of the pages and runs the first loop has passed
TokensSoFar ==
    TokensBefore(page_number)
        \o (IF pc = "match"
            THEN RunTokens(SubSeq(Runs(LabelAt(page_number)), 1, m), page_number)
            ELSE << >>)

(***************************************************************************)
(* Claims about the second loop, one pass at a time.                       *)
(***************************************************************************)
raw_next == bookmarks[k + 1].level

\* C1: a token whose raw level is greater than that of the token before it
\* gets the depth of that token + 1, whatever the size of the jump, and its
\* node is appended as the last child of that token's node.
C1_DescendOneLevel ==
    [][ (Placing /\ old_raw_level # None /\ old_raw_level < raw_next) =>
            /\ pc' = "build"
            /\ old_item = k
            /\ old_item' = k + 1
            /\ level' = old_level + 1
            /\ old_level' = old_level + 1
            /\ children'[old_item] = Append(children[old_item], old_item')
            /\ LastOf(children'[old_item]) = old_item'
            /\ DepthOf(children', old_item')
                   = DepthOf(children', old_item) + 1 ]_vars

\* a jump of 1 raw level and then one of 14 have each made a child one level
\* below the node before
C1_Witness ==
    /\ Built
    /\ k >= 3
    /\ bookmarks[2].level - bookmarks[1].level = 1
    /\ bookmarks[3].level - bookmarks[2].level = 14
    /\ children[0] = << 1 >>
    /\ children[1] = << 2 >>
    /\ children[2] = << 3 >>

\* a jump of 15 raw levels, from a token of another page, has made a child
\* one level below the node before
C1_WitnessJump15 ==
    /\ Built
    /\ \E i \in 2..k :
          /\ bookmarks[i].level - bookmarks[i - 1].level = 15
          /\ bookmarks[i].page_number # bookmarks[i - 1].page_number
          /\ ParentOf(children, i) = i - 1
          /\ DepthOf(children, i) = DepthOf(children, i - 1) + 1

\* C2: a token whose raw level is less than that of the token before it gets
\* the depth max(0, previous depth - drop of the raw level); the lists above
\* that depth leave the stack and the node is appended to the list open at
\* that depth, the root list when the depth is 0.
C2_AscendByDrop ==
    [][ (Placing /\ old_raw_level # None /\ raw_next < old_raw_level) =>
            LET d == Max(0, old_level - (old_raw_level - raw_next))
            IN  /\ pc' = "build"
                /\ level' = d
                /\ old_level' = d
                /\ old_item' = k + 1
                /\ d + 1 <= Len(level_item_list)
                /\ level_item_list' = SubSeq(level_item_list, 1, d + 1)
                /\ d = 0 => level_item_list[d + 1] = 0
                /\ children'[level_item_list[d + 1]]
                       = Append(children[level_item_list[d + 1]], old_item')
                /\ DepthOf(children', old_item') = d ]_vars

\* a drop has skipped two lists at once, one has been clamped at the root,
\* one has ended below the root
C2_Witness ==
    /\ Built
    /\ \E i \in 2..k :
          /\ bookmarks[i].level < bookmarks[i - 1].level
          /\ DepthOf(children, i - 1) - DepthOf(children, i) >= 2
    /\ \E i \in 2..k :
          /\ bookmarks[i - 1].level - bookmarks[i].level
                 > DepthOf(children, i - 1)
          /\ DepthOf(children, i - 1) > 0
          /\ ParentOf(children, i) = 0
    /\ \E i \in 2..k :
          /\ bookmarks[i].level < bookmarks[i - 1].level
          /\ DepthOf(children, i) > 0

\* C3: two consecutive tokens of equal raw level get the same depth and are
\* neighbours in the same list, the earlier one first, be they of one page
\* or of two.
C3_EqualLevelSiblings ==
    [][ (Placing /\ old_raw_level # None /\ raw_next = old_raw_level) =>
            /\ pc' = "build"
            /\ old_item = k
            /\ old_item' = k + 1
            /\ level' = old_level
            /\ old_level' = old_level
            /\ level_item_list' = level_item_list
            /\ LET o == ParentOf(children, old_item)
               IN  /\ LastOf(children[o]) = old_item
                   /\ children'[o] = Append(children[o], old_item')
            /\ DepthOf(children', old_item')
                   = DepthOf(children', old_item) ]_vars

\* siblings of equal raw level from one page and from two pages, below the
\* root and at the root
C3_Witness ==
    /\ Built
    /\ \E i \in 2..k :
          /\ bookmarks[i].level = bookmarks[i - 1].level
          /\ bookmarks[i].page_number = bookmarks[i - 1].page_number
          /\ ParentOf(children, i) = ParentOf(children, i - 1)
          /\ ParentOf(children, i) # 0
    /\ \E i \in 2..k :
          /\ bookmarks[i].level = bookmarks[i - 1].level
          /\ bookmarks[i].page_number # bookmarks[i - 1].page_number
          /\ ParentOf(children, i) = ParentOf(children, i - 1)

\* C4: a token of raw level 0 is appended to the root list at depth 0 after
\* any tokens; a token of raw level 0 right after it is appended to the root
\* list behind it and not to its children.
C4_LevelZeroAtRoot ==
    [][ (Placing /\ raw_next = 0) =>
            /\ pc' = "build"
            /\ level' = 0
            /\ old_level' = 0
            /\ old_item' = k + 1
            /\ children'[0] = Append(children[0], old_item')
            /\ children'[old_item'] = << >>
            /\ old_raw_level = 0 =>
                   /\ LastOf(children[0]) = old_item
                   /\ children'[old_item] = << >> ]_vars

\* a node two levels below the root, then a token of level 0 at the root and
\* a second one right behind it, as its sibling, one of them with the first
\* level symbol and one with none
C4_Witness ==
    /\ pc = "done"
    /\ \E i \in 3..(k - 1) :
          /\ DepthOf(children, i - 1) >= 2
          /\ bookmarks[i].level = 0
          /\ bookmarks[i + 1].level = 0
          /\ ParentOf(children, i) = 0
          /\ ParentOf(children, i + 1) = 0
          /\ children[i] = << >>
          /\ \E j \in 1..(Len(children[0]) - 1) :
                children[0][j] = i /\ children[0][j + 1] = i + 1
          /\ page_path_list[bookmarks[i + 1].page_number + 1]
                 = << "p", " ", "a", " ", "m0", "b" >>

(***************************************************************************)
(* Claims about the tree as a whole.                                       *)
(***************************************************************************)
\* C5: the tree holds one node per emitted token; in the root list and in
\* every list of children the nodes stand in the order of their tokens (by
\* page, then from left to right), and the pre-order walk of the roots gives
\* the tokens back as they were emitted.
C5_PreOrderIsTokenOrder ==
    /\ Built =>
          /\ Len(items) = k
          /\ Walk(children, children[0]) = [i \in 1..k |-> i]
          /\ \A o \in DOMAIN children : \A a, b \in 1..Len(children[o]) :
                a < b => children[o][a] < children[o][b]
          /\ \A i \in 1..k :
                items[i] = [title |-> bookmarks[i].name,
                            destination |-> bookmarks[i].page_number]
    /\ pc = "done" => k = Len(bookmarks) /\ bookmarks = TokensSoFar

\* a returned tree of five nodes or more, from two pages or more, with two
\* roots, a node with two children and a node two levels down
C5_Witness ==
    /\ pc = "done"
    /\ k >= 5
    /\ Len(children[0]) >= 2
    /\ \E i \in 1..k : Len(children[i]) >= 2
    /\ \E i \in 1..k : DepthOf(children, i) >= 2
    /\ \E i \in 2..k : bookmarks[i].page_number = bookmarks[i - 1].page_number
    /\ bookmarks[k].page_number > bookmarks[1].page_number

\* C6: the target page of a node is the position, from 0, of the page whose
\* file name gave its token; a page without tokens has a position all the
\* same, and the tokens of one page share its position.
C6_TargetPageIsPagePosition ==
    Built =>
        \A i \in 1..Len(items) :
            LET p == items[i].destination
            IN  /\ p \in 0..(Len(page_path_list) - 1)
                /\ has_label(page_path_list[p + 1])
                /\ LET j == i - Len(TokensBefore(p))
                   IN  /\ j \in 1..Len(PageTokens(p))
                       /\ PageTokens(p)[j].name = items[i].title

\* the first page has a note alone and gives no node, the second gives two
\* nodes, both with target page 1
C6_Witness ==
    /\ pc = "done"
    /\ Len(page_path_list) = 2
    /\ has_label(page_path_list[1])
    /\ Len(items) = 2
    /\ items[1].destination = 1
    /\ items[2].destination = 1

\* the same behind a page whose stem is a page number alone
C6_WitnessUnlabelled ==
    /\ pc = "done"
    /\ Len(page_path_list) = 2
    /\ ~has_label(page_path_list[1])
    /\ Len(items) = 2
    /\ items[1].destination = 1
    /\ items[2].destination = 1

\* C7: after every token the depth is >= 0 and the stack of open lists has
\* depth + 1 entries, the root list first, so that deleting lists on an
\* ascent leaves the root list, the append finds its list and no error is
\* raised, whatever the raw levels in 0..15.
C7_StackIsDepthPlusOne ==
    /\ pc # "error"
    /\ (Built /\ 0 < Len(bookmarks)) =>
          /\ Len(level_item_list) >= 1
          /\ level_item_list[1] = 0
          /\ k = 0 => level_item_list = << 0 >>
          /\ k >= 1 =>
                /\ level >= 0
                /\ old_level = level
                /\ Len(level_item_list) = level + 1
                /\ level_item_list[level + 1] = ParentOf(children, old_item)
                /\ DepthOf(children, old_item) = level

\* the first token has level 15 and two ascents follow, both clamped at the
\* root
C7_Witness ==
    /\ pc = "done"
    /\ k = 3
    /\ bookmarks[1].level = 15
    /\ bookmarks[2].level < bookmarks[1].level
    /\ bookmarks[3].level < bookmarks[2].level
    /\ level_item_list = << 0 >>
    /\ children[0] = << 1, 2, 3 >>

\* C10: the depth of every token is at least 0 and at most its raw level;
\* tokens of one raw level may lie at different depths.
C10_DepthAtMostRawLevel ==
    Built =>
        /\ \A i \in 1..k :
              LET depth == DepthOf(children, i)
              IN  0 <= depth /\ depth <= bookmarks[i].level
        /\ k >= 1 => 0 <= old_level /\ old_level <= old_raw_level

\* two tokens of level 15 at different depths, and between them a token of
\* level 1 at the root
C10_Witness ==
    /\ Built
    /\ k = 3
    /\ bookmarks[1].level = 15
    /\ bookmarks[2].level = 1
    /\ bookmarks[3].level = 15
    /\ DepthOf(children, 1) = 0
    /\ DepthOf(children, 2) = 0
    /\ DepthOf(children, 3) = 1

(***************************************************************************)
(* Claims about the first loop.                                            *)
(***************************************************************************)
\* C8 as stated: the label falls into runs, from left to right and without
\* overlap, of at most one leading level symbol and one or more other
\* characters, a run starting at every level symbol.
C8_RunAtEveryLevelStr ==
    pc = "match" =>
        result = RunsFrom(LabelAt(page_number),
                          EveryLevelStrStarts(LabelAt(page_number)))

\* C8, amended: the label falls into runs, from left to right and without
\* overlap, of at most one leading level symbol and one or more other
\* characters; a run starts at every level symbol that another character
\* than a level symbol follows (a level symbol followed by a level symbol or
\* by the end of the label is in no run).  The runs give, in order, tokens
\* whose level is the position, from 0, of the leading symbol among the
\* sixteen (0 without one) and whose text is without that symbol.
C8_RunsAndLevels ==
    /\ pc = "match" =>
          /\ result = Runs(LabelAt(page_number))
          /\ \A j \in 1..Len(result) : IsRun(result[j])
    /\ LET tokens == TokensSoFar
       IN  /\ Len(bookmarks) = Len(tokens)
           /\ \A i \in 1..Len(bookmarks) :
                 /\ bookmarks[i].level = tokens[i].level
                 /\ bookmarks[i].level \in 0..15
                 /\ \A x \in 1..Len(bookmarks[i].name) :
                       ~IsLevelStr(bookmarks[i].name[x])
                 /\ IsPieceOf(bookmarks[i].name,
                              LabelAt(tokens[i].page_number))

\* a label of two marked runs has given two tokens of level 1, in order, and
\* a label without level symbol one token of level 0
C8_Witness ==
    /\ pc = "done"
    /\ page_path_list = << << "p", " ", "a", " ", "*", "a" >>,
                           << "p", " ", "m1", "a", " ", "m1", "b" >> >>
    /\ bookmarks = << [level |-> 0, name |-> << "a" >>, page_number |-> 0],
                      [level |-> 1, name |-> << "a" >>, page_number |-> 1],
                      [level |-> 1, name |-> << "b" >>, page_number |-> 1] >>

\* a level symbol that a level symbol follows, and one at the end of the
\* label, have started no run
C8_SkippedWitness ==
    /\ pc = "match"
    /\ LabelAt(page_number) = << "m15", "m1", "a", "m15" >>
    /\ result = << << "m1", "a" >> >>

\* C9: the text of a token is its run without the level symbol, cut at the
\* first note mark of the run and trimmed; the cut ends with the run, a later
\* run of the label gives its own token.  A run whose text is empty then
\* gives no token and leaves the tree alone: the second loop's previous raw
\* level and depth are those of the last token emitted.
C9_NoteCutAndDrop ==
    LET tokens == TokensSoFar
    IN  /\ Len(bookmarks) = Len(tokens)
        /\ \A i \in 1..Len(bookmarks) :
              /\ bookmarks[i].name = tokens[i].name
              /\ bookmarks[i].name # << >>
        /\ (Built /\ k >= 1) =>
              /\ old_item = k
              /\ old_raw_level = tokens[k].level
              /\ old_level = DepthOf(children, k)
        /\ pc = "done" => Len(items) = Len(tokens)

\* a name after a note of the same label, and a marked note between two
\* names of level 1 that are siblings all the same
C9_Witness ==
    /\ pc = "done"
    /\ page_path_list
           = << << "p", " ", "a", " ", "*", "a", " ", "m1", "b" >>,
                << "p", " ", "m1", "a", "m15", "*", "m1", "b" >> >>
    /\ Len(items) = 4
    /\ items[1].title = << "a" >>
    /\ items[2].title = << "b" >>
    /\ children[0] = << 1 >>
    /\ children[1] = << 2, 3, 4 >>

(***************************************************************************)
(* The object and one conversion: the default of the page layout, the      *)
(* argument parsers of the command line and of the metafile name, and      *)
(* join_pdf, which writes the page layout to the new PDF.                  *)
(***************************************************************************)
\* lines 81-83
get_allow_pagelayout_list ==
    << "", "SinglePage", "OneColumn", "TwoColumnLeft", "TwoColumnRight",
       "TwoPageLeft", "TwoPageRight" >>

InList(l, x) == \E i \in 1..Len(l) : l[i] = x

\* list.remove(x): what the call returns, and the list it leaves
list_remove(l, x) ==
    [returns |-> None,
     list |-> IF InList(l, x)
              THEN LET i == CHOOSE n \in 1..Len(l) :
                               l[n] = x /\ \A j \in 1..(n - 1) : l[j] # x
                   IN  SubSeq(l, 1, i - 1) \o SubSeq(l, i + 1, Len(l))
              ELSE l]

\* line 180: the value given to add_argument as choices
pagelayout_choices == list_remove(get_allow_pagelayout_list, "").returns

\* argparse._check_value: without choices every value passes
check_value(choices, value) ==
    IF choices = None THEN TRUE ELSE InList(choices, value)

ArgError == "<error>"

\* parse_args for the option --pagelayout: the value of the option, the
\* default without it, ArgError when the parser ends the program
parse_pagelayout(argv, default) ==
    IF argv = << >> THEN default
    ELSE IF Len(argv) = 2 /\ argv[1] = "--pagelayout"
              /\ check_value(pagelayout_choices, argv[2])
         THEN argv[2]
         ELSE ArgError

\* pikepdf.Name('/' + s)
Name(s) == << "/", s >>

\* the values tried: the documented ones, '' and one that is not documented
PagelayoutValues ==
    {get_allow_pagelayout_list[i] : i \in 1..Len(get_allow_pagelayout_list)}
        \cup {"ThreeColumn"}

\* argument lists: none, the option with a value, the option without one
Argvs ==
    {<< >>, << "--pagelayout" >>}
        \cup {<< "--pagelayout", v >> : v \in PagelayoutValues}

\* no conversion has called generate_outlines
OutlinesIdle ==
    /\ page_path_list = << >>
    /\ pc = "idle"
    /\ page_number = 0
    /\ result = << >>
    /\ m = 0
    /\ bookmarks = << >>
    /\ k = 0
    /\ items = << >>
    /\ children = << >>
    /\ level_item_list = << >>
    /\ old_raw_level = None
    /\ old_level = None
    /\ old_item = None
    /\ level = None

outline_vars == << page_path_list, pc, page_number, result, m, bookmarks, k,
                   items, children, level_item_list, old_raw_level, old_level,
                   old_item, level >>

InitConvert == ConstructorState /\ OutlinesIdle

\* lines 73-79, the setter of default_pagelayout called with a string
SetDefaultPagelayout ==
    /\ at = "new"
    /\ \E value \in PagelayoutValues :
          IF ~InList(get_allow_pagelayout_list, value)
          THEN \* raise ValueError(value)
               /\ setter_raised' = TRUE
               /\ UNCHANGED default_pagelayout
          ELSE /\ setter_raised' = FALSE
               /\ default_pagelayout' = value
    /\ UNCHANGED << at, args, pagelayout, metafile, PageLayout >>
    /\ UNCHANGED outline_vars

\* lines 448-450 with 152-166 and 178-190: the command line is parsed
ParseArgs ==
    /\ at = "new"
    /\ \E argv \in Argvs : \E mf \in BOOLEAN :
          /\ parse_pagelayout(argv, default_pagelayout) # ArgError
          /\ args' = [pagelayout |->
                          parse_pagelayout(argv, default_pagelayout),
                      metafile |-> mf]
    /\ at' = "parsed"
    /\ UNCHANGED << default_pagelayout, setter_raised, pagelayout, metafile,
                    PageLayout >>
    /\ UNCHANGED outline_vars

\* the parser of the command line ends the program
ParseArgsExit ==
    /\ at = "new"
    /\ \E argv \in Argvs :
          parse_pagelayout(argv, default_pagelayout) = ArgError
    /\ at' = "exit"
    /\ UNCHANGED << default_pagelayout, setter_raised, args, pagelayout,
                    metafile, PageLayout >>
    /\ UNCHANGED outline_vars

\* lines 206-218 with 193-203
set_args_and_convert ==
    /\ at = "parsed"
    /\ pagelayout' = args.pagelayout
    /\ metafile' = args.metafile
    /\ at' = "convert"
    /\ UNCHANGED << default_pagelayout, setter_raised, args, PageLayout >>
    /\ UNCHANGED outline_vars

\* lines 249-255: no metafile is asked for, or the directory has none
NoMetafile ==
    /\ at = "convert"
    /\ at' = "join"
    /\ UNCHANGED << default_pagelayout, setter_raised, args, pagelayout,
                    metafile, PageLayout >>
    /\ UNCHANGED outline_vars

\* lines 249-255 with 169-175 and 193-203: the name of the first metafile,
\* behind "@pdf ", is parsed and sets the options again
ReadMetafile ==
    /\ at = "convert"
    /\ metafile
    /\ \E argv \in Argvs :
          /\ parse_pagelayout(argv, default_pagelayout) # ArgError
          /\ pagelayout' = parse_pagelayout(argv, default_pagelayout)
    /\ at' = "join"
    /\ UNCHANGED << default_pagelayout, setter_raised, args, metafile,
                    PageLayout >>
    /\ UNCHANGED outline_vars

\* the parser of the metafile name ends the program
ReadMetafileExit ==
    /\ at = "convert"
    /\ metafile
    /\ \E argv \in Argvs :
          parse_pagelayout(argv, default_pagelayout) = ArgError
    /\ at' = "exit"
    /\ UNCHANGED << default_pagelayout, setter_raised, args, pagelayout,
                    metafile, PageLayout >>
    /\ UNCHANGED outline_vars

\* lines 282-293: the page layout of the new PDF
join_pdf ==
    /\ at = "join"
    /\ PageLayout' = IF pagelayout # "" THEN Name(pagelayout) ELSE Unset
    /\ at' = "joined"
    /\ UNCHANGED << default_pagelayout, setter_raised, args, pagelayout,
                    metafile >>
    /\ UNCHANGED outline_vars

NextConvert ==
    \/ SetDefaultPagelayout
    \/ ParseArgs
    \/ ParseArgsExit
    \/ set_args_and_convert
    \/ NoMetafile
    \/ ReadMetafile
    \/ ReadMetafileExit
    \/ join_pdf

SpecConvert == InitConvert /\ [][NextConvert]_vars

(***************************************************************************)
(* Claim about the page layout.                                            *)
(***************************************************************************)
\* C11: the page layout of a conversion is '' or one of the six documented
\* names: the parsers of the command line and of the metafile name let no
\* other value of --pagelayout through to join_pdf, as the setter of
\* default_pagelayout lets no other value into the default.
C11_PagelayoutIsAllowed ==
    /\ InList(get_allow_pagelayout_list, default_pagelayout)
    /\ at \in {"join", "joined"} =>
          InList(get_allow_pagelayout_list, pagelayout)
    /\ at = "joined" =>
          \/ PageLayout = Unset
          \/ \E i \in 2..Len(get_allow_pagelayout_list) :
                PageLayout = Name(get_allow_pagelayout_list[i])

\* the part of C11 about the setter: the default is '' or a documented name,
\* and a call that raised ValueError has left it as it was
C11_SetterKeepsDefault ==
    /\ InList(get_allow_pagelayout_list, default_pagelayout)
    /\ [][setter_raised' /\ at = "new" /\ at' = "new"
              => default_pagelayout' = default_pagelayout]_vars

\* the setter has refused a value and the default is still a documented name
C11_SetterWitness ==
    /\ at = "new"
    /\ setter_raised
    /\ default_pagelayout = "TwoPageRight"
====
